---- MODULE Spec2Model ----
(***************************************************************************)
(* Model of freefem_magic.py: the %freefem line/cell magic (FreeFemMagic)  *)
(* with its three external-process call sites, and the scratch-directory   *)
(* context manager TemporaryFreeFemFile.                                   *)
(*                                                                         *)
(* Spec        : sequences of freefem invocations over one filesystem.     *)
(* StagingSpec : sequences of `with TemporaryFreeFemFile(codes) as t:`     *)
(*               scopes over one temporary-file area.                      *)
(*                                                                         *)
(* External tools are black boxes: a spawned process ends with some exit   *)
(* status, some stdout and some stderr.  The interpreter may leave the     *)
(* picture file behind; a converter that exits 0 has written its output    *)
(* file.  Neither touches script files.                                    *)
(***************************************************************************)
EXTENDS Naturals, Sequences, FiniteSets, TLC

VARIABLES
    fs,        \* filesystem: existing path |-> content
    origin,    \* history: staged script path |-> who wrote it last
    pc,        \* where the current freefem invocation stands
    args,      \* parsed Invocation Options of the current invocation
    cell,      \* cell body of the current invocation, or None
    ff_file,   \* local variable ff_file of freefem()
    spawned,   \* argv of every process started by the current invocation
    exits,     \* [code, out, err] of every process that has terminated
    missing,   \* call site whose os.path.exists check failed, or None
    raised,    \* exception propagating out of the invocation, or NoError
    ret,       \* value returned by the invocation, or None
    printed,   \* what the invocation print()ed
    tree,      \* StagingSpec: temp area, existing directory |-> (name |-> content)
    obj,       \* StagingSpec: attributes of the TemporaryFreeFemFile object
    t,         \* StagingSpec: the caller's `as` target
    given,     \* StagingSpec: ff_codes as passed by the caller
    spc,       \* StagingSpec: position of the caller around the with scope
    scopeErr,  \* StagingSpec: exception propagating out of the with statement
    scopes     \* StagingSpec: number of scopes opened so far

vars == <<fs, origin, pc, args, cell, ff_file, spawned, exits, missing,
          raised, ret, printed, tree, obj, t, given, spc, scopeErr, scopes>>

dispVars == <<fs, origin, pc, args, cell, ff_file, spawned, exits, missing,
              raised, ret, printed>>

stagVars == <<tree, obj, t, given, spc, scopeErr, scopes>>

-----------------------------------------------------------------------------
(* Values *)

\* Python's None (an absent option, an absent cell, no return value).
None == "<None>"

\* No exception.
NoError == [type |-> "none", msg |-> ""]

\* Python truthiness of an optional string: None and '' are false.
Truthy(v) == v # None /\ v # ""

\* The fixed default script name.
DefaultScript == "temp.edp"

\* Option values the invocations are drawn from.  '' is what `--write=`,
\* `--display=` and `--displaysvg=` parse to.
FfFileArgs  == {None, "a.edp", "temp.edp"}
DisplayArgs == {None, "", "plot.eps"}
WriteArgs   == {None, "", "out"}
Cells       == {None, "real a; a=1;", "plot(Th);"}

\* What a terminated process can report.
ExitCodes == {0, 2}
Stdouts   == {"", "syntax error line 4"}
Stderrs   == {"error on stderr"}

\* Content of a file present before the session and of a picture.
OldText == "old script"
Picture == "<picture>"

\* open(p, "w").write(c): create or truncate p, then write c.
WriteFile(f, p, c) == [q \in DOMAIN f \cup {p} |-> IF q = p THEN c ELSE f[q]]

-----------------------------------------------------------------------------
(* freefem(): pure parts *)

\* Variants of StagePath: --write ignored; --write tested against None only.
StagePath_alwaysDefault(write) == DefaultScript
StagePath_notNone(write) == IF write # None THEN write \o ".edp" ELSE DefaultScript

\* Where a supplied cell body is written.
StagePath(write) == IF Truthy(write) THEN write \o ".edp" ELSE DefaultScript

\* Variant of ScriptPath: a supplied body takes precedence over ff_file.
ScriptPath_bodyFirst(a, c) ==
    IF c # None THEN StagePath(a.write)
    ELSE IF Truthy(a.ff_file) THEN a.ff_file
    ELSE DefaultScript

\* The path handed to run_ff_file.
ScriptPath(a, c) ==
    IF Truthy(a.ff_file) THEN a.ff_file
    ELSE IF c # None THEN StagePath(a.write)
    ELSE DefaultScript

\* The command lines of the three call sites.
InterpArgv(p) == <<"FreeFem++", "-nowait", "-nw", "-ne", p>>
PngArgv(p) == <<"inkscape", "-z", "-f", p, "-e", p \o ".png">>
SvgArgv(p) == <<"inkscape", "-z", "-f", p, "-l", p \o ".svg">>

\* The exception raised when a call site finds its input path missing.
\* convert_png and convert_svg build the message from the name ff_file,
\* which is not bound in their scope.
MissingInput(site, p) ==
    IF site = "run_ff_file"
    THEN [type |-> "IOError", msg |-> "File not found: " \o p]
    ELSE [type |-> "NameError", msg |-> "global name 'ff_file' is not defined"]

\* Variant of ToolFailure: the diagnostic is taken from stderr.
ToolFailure_stderr(out, err) == [type |-> "FreeFemException", msg |-> err]

\* The exception raised for a non-zero exit status.
ToolFailure(out, err) == [type |-> "FreeFemException", msg |-> out]

\* The display handles.
Image(filename) == [cls |-> "Image", filename |-> filename]
SVG(filename) == [cls |-> "SVG", filename |-> filename]

\* Variant of Converter: displaysvg wins over display.
Converter_svgFirst(a) ==
    IF Truthy(a.displaysvg) THEN "convert_svg"
    ELSE IF Truthy(a.display) THEN "convert_png"
    ELSE None

\* Which converter freefem() calls once the interpreter step has returned:
\* display wins over displaysvg; None when neither option is set.
Converter(a) ==
    IF Truthy(a.display) THEN "convert_png"
    ELSE IF Truthy(a.displaysvg) THEN "convert_svg"
    ELSE None

\* The picture path handed to that converter.
ConverterInput(a) ==
    IF Converter(a) = "convert_png" THEN a.display ELSE a.displaysvg

\* Command line and returned file name of a converter call site.
ConverterArgv(site, p) == IF site = "convert_png" THEN PngArgv(p) ELSE SvgArgv(p)
ConverterOutput(site, p) ==
    IF site = "convert_png" THEN p \o ".png" ELSE p \o ".svg"

\* The handle freefem() wraps around the converter's return value.
Handle(site, filename) ==
    IF site = "convert_png" THEN Image(filename) ELSE SVG(filename)

\* Bookkeeping of who staged which script: the file written now is entered
\* as current, and entries age when their invocation is over.
Aged(o) == [q \in DOMAIN o |-> [o[q] EXCEPT !.age = "earlier"]]
Staged(o, p, persisted) ==
    [q \in DOMAIN o \cup {p} |->
        IF q = p THEN [age |-> "current", persisted |-> persisted] ELSE o[q]]

-----------------------------------------------------------------------------
(* freefem(): the invocation as a state machine *)

ArgSets == [ff_file : FfFileArgs, display : DisplayArgs,
            displaysvg : DisplayArgs, write : WriteArgs]

InitFiles ==
    { f \in [{"a.edp", "temp.edp", "out.edp", "plot.eps"} -> {OldText, Picture, None}] :
        /\ f["plot.eps"] \in {Picture, None}
        /\ \A q \in {"a.edp", "temp.edp", "out.edp"} : f[q] \in {OldText, None} }

Present(f) == [q \in {r \in DOMAIN f : f[r] # None} |-> f[q]]

\* freefem(line, cell) from its entry up to the point where run_ff_file
\* either raises or blocks in communicate() on the interpreter.
Invoke(a, c) ==
    /\ pc = "idle"
    /\ LET staged == IF c # None THEN WriteFile(fs, StagePath(a.write), c) ELSE fs
           script == ScriptPath(a, c)
           found  == script \in DOMAIN staged
       IN /\ args' = a
          /\ cell' = c
          /\ fs' = staged
          /\ origin' = IF c # None
                       THEN Staged(origin, StagePath(a.write), Truthy(a.write))
                       ELSE origin
          /\ ff_file' = script
          /\ spawned' = IF found THEN <<InterpArgv(script)>> ELSE <<>>
          /\ exits' = <<>>
          /\ missing' = IF found THEN None ELSE "run_ff_file"
          /\ raised' = IF found THEN NoError ELSE MissingInput("run_ff_file", script)
          /\ ret' = None
          /\ printed' = <<>>
          /\ pc' = IF found THEN "interp" ELSE "done"
    /\ UNCHANGED stagVars

\* The interpreter terminates: the rest of run_ff_file, then freefem() up to
\* the point where the chosen converter call raises or blocks, or to the
\* final return when no picture was asked for.
InterpExit(code, out, err, draws) ==
    /\ pc = "interp"
    /\ exits' = Append(exits, [code |-> code, out |-> out, err |-> err])
    /\ LET after == IF draws THEN WriteFile(fs, "plot.eps", Picture) ELSE fs
           site  == Converter(args)
           p     == ConverterInput(args)
       IN /\ fs' = after
          /\ IF code # 0
             THEN /\ raised' = ToolFailure(out, err)
                  /\ pc' = "done"
                  /\ UNCHANGED <<spawned, missing, printed>>
             ELSE /\ printed' = Append(printed, out)
                  /\ IF site = None
                     THEN /\ pc' = "done"
                          /\ UNCHANGED <<spawned, missing, raised>>
                     ELSE IF p \in DOMAIN after
                     THEN /\ spawned' = Append(spawned, ConverterArgv(site, p))
                          /\ pc' = site
                          /\ UNCHANGED <<missing, raised>>
                     ELSE /\ raised' = MissingInput(site, p)
                          /\ missing' = site
                          /\ pc' = "done"
                          /\ UNCHANGED spawned
    /\ UNCHANGED <<origin, args, cell, ff_file, ret>>
    /\ UNCHANGED stagVars

\* The converter terminates: the rest of convert_png / convert_svg and the
\* return of the handle from freefem().
ConvExit(code, out, err) ==
    /\ pc \in {"convert_png", "convert_svg"}
    /\ exits' = Append(exits, [code |-> code, out |-> out, err |-> err])
    /\ LET p == ConverterInput(args)
       IN IF code # 0
          THEN /\ raised' = ToolFailure(out, err)
               /\ UNCHANGED <<fs, printed, ret>>
          ELSE /\ printed' = Append(printed, out)
               /\ fs' = WriteFile(fs, ConverterOutput(pc, p), Picture)
               /\ ret' = Handle(pc, ConverterOutput(pc, p))
               /\ UNCHANGED raised
    /\ pc' = "done"
    /\ UNCHANGED <<origin, args, cell, ff_file, spawned, missing>>
    /\ UNCHANGED stagVars

\* The invocation is over: its result or exception has reached the notebook
\* cell and the frame of freefem() is gone.  Only the filesystem survives.
Finish ==
    /\ pc = "done"
    /\ pc' = "idle"
    /\ origin' = Aged(origin)
    /\ args' = [ff_file |-> None, display |-> None, displaysvg |-> None, write |-> None]
    /\ cell' = None
    /\ ff_file' = None
    /\ spawned' = <<>>
    /\ exits' = <<>>
    /\ missing' = None
    /\ raised' = NoError
    /\ ret' = None
    /\ printed' = <<>>
    /\ UNCHANGED fs
    /\ UNCHANGED stagVars

-----------------------------------------------------------------------------
(* TemporaryFreeFemFile *)

\* Most scripts one batch holds, and most with scopes one session opens.
MaxBatch == 2
MaxScopes == 2

Texts == {"real a; a=1;", "plot(Th);\nreal b;"}

\* ff_codes as the caller passes it: one string, or a list of strings.
Str(text) == [list |-> FALSE, v |-> text]
List(seq) == [list |-> TRUE, v |-> seq]
Lists == UNION {[1..n -> Texts] : n \in 0..MaxBatch}

\* `if not isinstance(ff_codes, list): ff_codes = [ff_codes]`
Normalize(codes) == IF codes.list THEN codes.v ELSE <<codes.v>>

\* Directory names mkdtemp may come up with, and the random parts mkstemp may.
DirNames == {"/tmp/tmpA", "/tmp/tmpB"}
Rands == 1..(MaxBatch + 1)

\* mkstemp(suffix=".edp", dir=d): the name of the file and its full path.
EdpName(r) == "tmp" \o ToString(r) \o ".edp"
Join(d, name) == d \o "/" \o name

\* Every path that exists in the temp area.
TreePaths(tr) ==
    DOMAIN tr \cup UNION {{Join(d, n) : n \in DOMAIN tr[d]} : d \in DOMAIN tr}

\* Variant of RmTree: the files are unlinked, the directory is left behind.
RmTree_filesOnly(tr, d) == [e \in DOMAIN tr |-> IF e = d THEN [n \in {} |-> None] ELSE tr[e]]

\* shutil.rmtree(d): the directory and everything in it are gone.
RmTree(tr, d) == [e \in DOMAIN tr \ {d} |-> tr[e]]

\* The files __init__ leaves in its new directory: one per script, named by
\* the successive mkstemp draws, holding that script's text.
Written(codes, rands) ==
    [n \in {EdpName(rands[i]) : i \in 1..Len(codes)} |->
        codes[CHOOSE i \in 1..Len(codes) : EdpName(rands[i]) = n]]

NoObject == [tmp_dir |-> None, ff_files |-> <<>>]

\* TemporaryFreeFemFile(ff_codes): all of __init__.  mkdtemp creates a
\* directory that did not exist; each mkstemp creates a file that did not
\* exist in it.
Construct(codes, d, rands) ==
    /\ spc \in {"outside", "exited"}
    /\ scopes < MaxScopes
    /\ d \notin DOMAIN tree
    /\ Len(rands) = Len(Normalize(codes))
    /\ \A i, j \in 1..Len(rands) : rands[i] = rands[j] => i = j
    /\ LET list == Normalize(codes)
       IN /\ tree' = [e \in DOMAIN tree \cup {d} |->
                        IF e = d THEN Written(list, rands) ELSE tree[e]]
          /\ obj' = [tmp_dir |-> d,
                     ff_files |-> [i \in 1..Len(list) |-> Join(d, EdpName(rands[i]))]]
    /\ given' = codes
    /\ t' = None
    /\ spc' = "constructed"
    /\ scopeErr' = NoError
    /\ scopes' = scopes + 1
    /\ UNCHANGED dispVars

\* __enter__: the with statement binds the object itself to its target.
Enter ==
    /\ spc = "constructed"
    /\ t' = "self"
    /\ spc' = "inside"
    /\ UNCHANGED <<tree, obj, given, scopeErr, scopes>>
    /\ UNCHANGED dispVars

\* The body of the with statement leaves a file of its own in the
\* directory (the output of a tool run on a staged script).
BodyWrites ==
    /\ spc = "inside"
    /\ "out.eps" \notin DOMAIN tree[obj.tmp_dir]
    /\ tree' = [tree EXCEPT ![obj.tmp_dir] = WriteFile(@, "out.eps", Picture)]
    /\ UNCHANGED <<obj, t, given, spc, scopeErr, scopes>>
    /\ UNCHANGED dispVars

\* Variant of Exit: __exit__ also forgets the paths it has just removed.
Exit_forgets(error) ==
    /\ spc = "inside"
    /\ tree' = RmTree(tree, obj.tmp_dir)
    /\ obj' = NoObject
    /\ scopeErr' = IF error THEN [type |-> "RuntimeError", msg |-> "raised in scope"]
                   ELSE NoError
    /\ spc' = "exited"
    /\ UNCHANGED <<t, given, scopes>>
    /\ UNCHANGED dispVars

\* The body ends, normally or by raising, and __exit__(type, value, tb)
\* runs.  It returns None, so an exception of the body keeps propagating.
Exit(error) ==
    /\ spc = "inside"
    /\ tree' = RmTree(tree, obj.tmp_dir)
    /\ scopeErr' = IF error THEN [type |-> "RuntimeError", msg |-> "raised in scope"]
                   ELSE NoError
    /\ spc' = "exited"
    /\ UNCHANGED <<obj, t, given, scopes>>
    /\ UNCHANGED dispVars

StagNext ==
    \/ \E x \in Texts, d \in DirNames, r \in Rands : Construct(Str(x), d, <<r>>)
    \/ \E q \in Lists, d \in DirNames :
          \E rands \in [1..Len(q) -> Rands] : Construct(List(q), d, rands)
    \/ Enter
    \/ BodyWrites
    \/ \E error \in BOOLEAN : Exit(error)

\* A session that only stages scripts: no freefem invocation is under way.
StagInit ==
    /\ tree \in { [d \in {} |-> None],
                  [d \in {"/tmp/tmpA"} |-> [n \in {"tmp1.edp"} |-> "int n;"]] }
    /\ obj = NoObject
    /\ t = None
    /\ given = List(<<>>)
    /\ spc = "outside"
    /\ scopeErr = NoError
    /\ scopes = 0
    /\ fs = [q \in {} |-> None]
    /\ origin = [q \in {} |-> None]
    /\ pc = "idle"
    /\ args = [ff_file |-> None, display |-> None, displaysvg |-> None, write |-> None]
    /\ cell = None
    /\ ff_file = None
    /\ spawned = <<>>
    /\ exits = <<>>
    /\ missing = None
    /\ raised = NoError
    /\ ret = None
    /\ printed = <<>>

StagingSpec == StagInit /\ [][StagNext]_vars

\* A session that only runs the magic: any of the script and picture files
\* may be there beforehand, and no scratch directory is in use.
Init ==
    /\ fs \in {Present(f) : f \in InitFiles}
    /\ origin = [q \in {} |-> None]
    /\ pc = "idle"
    /\ args = [ff_file |-> None, display |-> None, displaysvg |-> None, write |-> None]
    /\ cell = None
    /\ ff_file = None
    /\ spawned = <<>>
    /\ exits = <<>>
    /\ missing = None
    /\ raised = NoError
    /\ ret = None
    /\ printed = <<>>
    /\ tree = [d \in {} |-> None]
    /\ obj = NoObject
    /\ t = None
    /\ given = List(<<>>)
    /\ spc = "outside"
    /\ scopeErr = NoError
    /\ scopes = 0

Next ==
    \/ \E a \in ArgSets, c \in Cells : Invoke(a, c)
    \/ \E code \in ExitCodes, out \in Stdouts, err \in Stderrs, draws \in BOOLEAN :
          InterpExit(code, out, err, draws)
    \/ \E code \in ExitCodes, out \in Stdouts, err \in Stderrs :
          ConvExit(code, out, err)
    \/ Finish

Spec == Init /\ [][Next]_vars

-----------------------------------------------------------------------------
(* Properties of the freefem magic, checked under Spec *)

\* An option counts as given when it carries a non-empty value.
Given(v) == v # None /\ v # ""

\* The last process that terminated in the current invocation.
LastExit == exits[Len(exits)]

\* C1: whenever a spawned process (interpreter, raster converter or vector
\* converter) has ended with a non-zero exit status, the call has raised a
\* FreeFemException whose message is exactly that process's captured stdout,
\* and nothing is returned.
C1_NonZeroExitRaisesStdout ==
    (exits # <<>> /\ LastExit.code # 0) =>
        /\ pc = "done"
        /\ raised.type = "FreeFemException"
        /\ raised.msg = LastExit.out
        /\ ret = None

C1_Witness ==
    /\ spawned = <<InterpArgv("temp.edp")>>
    /\ exits = <<[code |-> 2, out |-> "syntax error line 4", err |-> "error on stderr"]>>
    /\ raised = [type |-> "FreeFemException", msg |-> "syntax error line 4"]

\* C2: whenever one of run_ff_file, convert_png, convert_svg has found its
\* input path missing, the call has raised an IOError and has spawned no
\* process (every process started so far had already terminated).
C2_MissingInputRaisesFileNotFound ==
    missing # None =>
        /\ raised.type = "IOError"
        /\ Len(spawned) = Len(exits)

\* C3: in an invocation with --display=P where P does not exist, no external
\* process is ever spawned and the invocation ends in an IOError.
C3_MissingDisplayFailsBeforeAnySpawn ==
    (pc # "idle" /\ Given(args.display) /\ args.display \notin DOMAIN fs) =>
        /\ spawned = <<>>
        /\ pc = "done" => raised.type = "IOError"

ToolOutputs == {"plot.eps", "plot.eps.png", "plot.eps.svg"}

C7_NoPartialSuccess ==
    pc = "done" =>
        \/ /\ raised = NoError
           /\ Len(exits) = Len(spawned)
           /\ \A i \in 1..Len(exits) : exits[i].code = 0
        \/ /\ raised.type = "IOError"
           /\ missing # None
           /\ Len(exits) = Len(spawned)
           /\ \A i \in 1..Len(exits) : exits[i].code = 0
           /\ ret = None
        \/ /\ raised.type = "FreeFemException"
           /\ Len(exits) = Len(spawned)
           /\ LastExit.code # 0
           /\ \A i \in 1..(Len(exits) - 1) : exits[i].code = 0
           /\ ret = None

\* C10 (as stated): with a body and a positional ff_file, the body is in
\* <write>.edp (or temp.edp without --write) before the interpreter starts,
\* the interpreter is started on ff_file only, the written file is never
\* executed, and ff_file is not written unless it is the written file.
C10_BodyWrittenNeverRun ==
    (pc # "idle" /\ cell # None /\ args.ff_file # None) =>
        LET written == IF Given(args.write) THEN args.write \o ".edp" ELSE "temp.edp"
        IN /\ written \in DOMAIN fs
           /\ fs[written] = cell
           /\ \A i \in 1..Len(spawned) : spawned[i][1] = "FreeFem++" =>
                 /\ spawned[i][5] = args.ff_file
                 /\ spawned[i][5] # written
           /\ args.ff_file # written =>
                 (args.ff_file \in DOMAIN origin => origin[args.ff_file].age = "earlier")

\* C10 (amended): as above, but the written file is executed exactly when it
\* is the same path as the positional ff_file.
C10_BodyWrittenPositionalRun ==
    (pc # "idle" /\ cell # None /\ args.ff_file # None) =>
        LET written == IF Given(args.write) THEN args.write \o ".edp" ELSE "temp.edp"
        IN /\ written \in DOMAIN fs
           /\ fs[written] = cell
           /\ \A i \in 1..Len(spawned) : spawned[i][1] = "FreeFem++" =>
                 /\ spawned[i][5] = args.ff_file
                 /\ args.ff_file # written => spawned[i][5] # written
           /\ args.ff_file # written =>
                 (args.ff_file \in DOMAIN origin => origin[args.ff_file].age = "earlier")

C10_Witness ==
    /\ pc = "done"
    /\ cell = "plot(Th);"
    /\ args.ff_file = "a.edp"
    /\ args.write = "out"
    /\ {"out.edp", "a.edp"} \subseteq DOMAIN fs
    /\ fs["out.edp"] = "plot(Th);"
    /\ fs["a.edp"] = OldText
    /\ spawned = <<InterpArgv("a.edp")>>

-----------------------------------------------------------------------------
(* Properties of TemporaryFreeFemFile, checked under StagingSpec *)

\* The scripts of the batch the current object was built from.
Scripts == IF given.list THEN given.v ELSE <<given.v>>

\* The paths the object holds.
HeldPaths == {obj.tmp_dir} \cup {obj.ff_files[i] : i \in 1..Len(obj.ff_files)}

\* C8: for a non-empty batch (a single string counting as a batch of one)
\* the constructor makes a directory that did not exist, holding exactly one
\* .edp file per script, in order, distinct, each with exactly that script's
\* text; and once the with scope has exited, normally or by an error, the
\* directory and every file in it are gone.
C8_StagedThenRemoved ==
    /\ [](Scripts # <<>> =>
          /\ spc \in {"constructed", "inside"} =>
                /\ obj.tmp_dir \in DOMAIN tree
                /\ Len(obj.ff_files) = Len(Scripts)
                /\ \A i, j \in 1..Len(obj.ff_files) :
                      obj.ff_files[i] = obj.ff_files[j] => i = j
                /\ \A i \in 1..Len(Scripts) :
                      \E r \in Rands :
                         /\ obj.ff_files[i] =
                               obj.tmp_dir \o "/tmp" \o ToString(r) \o ".edp"
                         /\ ("tmp" \o ToString(r) \o ".edp") \in DOMAIN tree[obj.tmp_dir]
                         /\ tree[obj.tmp_dir]["tmp" \o ToString(r) \o ".edp"] = Scripts[i]
                /\ spc = "constructed" =>
                      Cardinality(DOMAIN tree[obj.tmp_dir]) = Len(Scripts)
          /\ spc = "exited" => HeldPaths \cap TreePaths(tree) = {})
    /\ [][(spc # "constructed" /\ spc' = "constructed") =>
             obj'.tmp_dir \notin DOMAIN tree]_vars

C8_Witness ==
    /\ spc = "exited"
    /\ scopeErr.type = "RuntimeError"
    /\ given.list
    /\ given.v = <<"plot(Th);\nreal b;", "real a; a=1;">>
    /\ Len(obj.ff_files) = 2
    /\ obj.tmp_dir \notin DOMAIN tree

\* C9 (as stated): after the scope has exited, the caller reaches no path
\* into the removed directory through the object the with statement bound.
C9_NoDanglingPaths ==
    (spc = "exited" /\ t = "self") =>
        /\ obj.tmp_dir = None
        /\ obj.ff_files = <<>>

\* C9 (amended): after the scope has exited, the object the with statement
\* bound still holds the directory path and the staged file paths exactly
\* as they were inside the scope, and none of them exists any more.
C9_PathsKeptButDangling ==
    /\ [](spc = "exited" =>
             /\ t = "self"
             /\ obj.tmp_dir # None
             /\ Len(obj.ff_files) = Len(Scripts)
             /\ HeldPaths \cap TreePaths(tree) = {})
    /\ [][(spc = "inside" /\ spc' = "exited") => obj' = obj]_vars

C9_Witness ==
    /\ spc = "exited"
    /\ t = "self"
    /\ obj.tmp_dir = "/tmp/tmpB"
    /\ obj.ff_files = <<"/tmp/tmpB/tmp2.edp">>
    /\ "/tmp/tmpA" \in DOMAIN tree

====
